---- MODULE Spec2Model ----
(***************************************************************************)
(* Pair analytics and signal engine: the z-score backtest, the Kalman     *)
(* hedge ratio, the Huber hedge ratio, the spread / rolling z-score and   *)
(* the alert engine, each as a state machine over bounded inputs.         *)
(*                                                                         *)
(* Numbers.  A pandas / numpy float is modelled as an exact fraction,     *)
(* with the IEEE results NaN and +-inf of a division by zero kept as      *)
(* values of their own.  Rounding is not modelled.                        *)
(***************************************************************************)
EXTENDS Integers, Sequences, FiniteSets, TLC

Abs(v) == IF v < 0 THEN -v ELSE v

Sign(v) == IF v < 0 THEN -1 ELSE IF v > 0 THEN 1 ELSE 0

RECURSIVE Gcd(_, _)
Gcd(a, b) == IF b = 0 THEN a ELSE Gcd(b, a % b)

\* A float: a fraction n/d in lowest terms with d > 0, NaN, or +-inf
\* (n = 1 or -1).  Signed zeros are not told apart.
NaN == [k |-> "nan", n |-> 0, d |-> 0]

Inf(s) == [k |-> "inf", n |-> s, d |-> 0]

Frac(n, d) ==
    LET g == Gcd(Abs(n), Abs(d))
    IN [k |-> "num", n |-> (Sign(d) * n) \div g, d |-> Abs(d) \div g]

\* Hundredths: H(245) is 2.45.
H(c) == Frac(c, 100)

IsNaN(a) == a.k = "nan"

IsNum(a) == a.k = "num"

FNeg(a) == IF IsNum(a) \/ a.k = "inf" THEN [a EXCEPT !.n = -a.n] ELSE a

FAdd(a, b) ==
    IF IsNaN(a) \/ IsNaN(b) THEN NaN
    ELSE IF a.k = "inf" /\ b.k = "inf" THEN (IF a.n = b.n THEN a ELSE NaN)
    ELSE IF a.k = "inf" THEN a
    ELSE IF b.k = "inf" THEN b
    ELSE Frac(a.n * b.d + b.n * a.d, a.d * b.d)

FSub(a, b) == FAdd(a, FNeg(b))

FMul(a, b) ==
    IF IsNaN(a) \/ IsNaN(b) THEN NaN
    ELSE IF a.k = "inf" \/ b.k = "inf"
         THEN (IF a.n = 0 \/ b.n = 0 THEN NaN ELSE Inf(Sign(a.n) * Sign(b.n)))
    ELSE Frac(a.n * b.n, a.d * b.d)

\* numpy float64 division: x/0 is NaN for x = 0 and +-inf otherwise (a
\* RuntimeWarning, no exception).
FDiv(a, b) ==
    IF IsNaN(a) \/ IsNaN(b) THEN NaN
    ELSE IF a.k = "inf" THEN (IF b.k = "inf" THEN NaN
                              ELSE Inf(a.n * (IF b.n < 0 THEN -1 ELSE 1)))
    ELSE IF b.k = "inf" THEN Frac(0, 1)
    ELSE IF b.n = 0 THEN (IF a.n = 0 THEN NaN ELSE Inf(Sign(a.n)))
    ELSE Frac(a.n * b.d, a.d * b.n)

\* a < b; False when either side is NaN.
FLt(a, b) ==
    IF IsNaN(a) \/ IsNaN(b) THEN FALSE
    ELSE IF a.k = "inf" THEN a.n < 0 /\ ~(b.k = "inf" /\ b.n < 0)
    ELSE IF b.k = "inf" THEN b.n > 0
    ELSE a.n * b.d < b.n * a.d

FGt(a, b) == FLt(b, a)

FAbs(a) == IF IsNaN(a) THEN a ELSE [a EXCEPT !.n = Abs(a.n)]

Zero == Frac(0, 1)

One == Frac(1, 1)

\* 0-based element access, as Series.iloc[k] / ndarray[k].
Iloc(s, k) == s[k + 1]

\* All sequences over S of length lo..hi.
SeqsOf(S, lo, hi) == UNION {[1..k -> S] : k \in lo..hi}

(***************************************************************************)
(* mean_reversion_backtest                                                 *)
(***************************************************************************)

\* Longest z-score series passed to the backtest.
MaxLen == 6

\* z-score values in hundredths: beyond the entry thresholds on each side,
\* and inside the exit band.
ZValues == {H(-250), H(5), H(250)}

\* Thresholds (entry_z, exit_z) in hundredths.  entry_z = 2.5 makes 2.5 a
\* value on which neither rule fires; exit_z = 3.0 is an exit threshold
\* above the entry threshold, with which both rules fire on 2.5; with
\* exit_z = 0.05 neither rule fires on 0.05 while 2.5 enters a position.
Thresholds ==
    {<<H(200), H(10)>>, <<H(250), H(10)>>, <<H(200), H(300)>>,
     <<H(200), H(5)>>}

\* The worked example: z-scores 0, 2.5, 2.5, 0.05, -2.5.
ExampleZ == <<H(0), H(250), H(250), H(5), H(-250)>>

BacktestInputs == SeqsOf(ZValues \cup {NaN}, 0, MaxLen) \cup {ExampleZ}

VARIABLES
    bt_pc,          \* "call" | "loop" | "returned"
    z_arg,          \* the Series passed as z: values, NaN for missing
    entry_z,
    exit_z,
    z,              \* z after dropna(): <<index label, value>> pairs
    i,              \* loop variable of `for i in range(1, len(z))`
    position,
    pnl,
    equity_curve,
    timestamps,
    bt_ret          \* <<(pnl, equity Series)>> once returned, <<>> before

bt_vars == <<bt_pc, z_arg, entry_z, exit_z, z, i, position, pnl,
             equity_curve, timestamps, bt_ret>>

\* A mutant of dropna(): the missing values are kept.
DropnaKeepsMissing(s) == [k \in 1..Len(s) |-> [idx |-> k - 1, val |-> s[k]]]

RECURSIVE DropnaFrom(_, _)
DropnaFrom(s, k) ==
    IF k > Len(s) THEN <<>>
    ELSE IF IsNaN(s[k]) THEN DropnaFrom(s, k + 1)
    ELSE <<[idx |-> k - 1, val |-> s[k]]>> \o DropnaFrom(s, k + 1)

\* Series.dropna(): the defined values, each with its index label.
Dropna(s) == DropnaFrom(s, 1)

\* pd.Series(values, index=labels)
MkSeries(values, labels) ==
    [k \in 1..Len(values) |-> [idx |-> labels[k], val |-> values[k]]]

\* `if len(z) < 5`
TooShort(s) == Len(s) < 5

\* A mutant of the entry rules: decided without the elif's first branch
\* taking the short side.
EntryRulesNoShort(pos, prev_z, entry) ==
    IF FLt(prev_z, FNeg(entry)) THEN 1 ELSE pos

\* A mutant of the entry rules: a position is dropped when no entry fires.
EntryRulesOrFlat(pos, prev_z, entry) ==
    IF FGt(prev_z, entry) THEN -1
    ELSE IF FLt(prev_z, FNeg(entry)) THEN 1
    ELSE 0

\* Entry rules.
EntryRules(pos, prev_z, entry) ==
    IF FGt(prev_z, entry) THEN -1
    ELSE IF FLt(prev_z, FNeg(entry)) THEN 1
    ELSE pos

\* A mutant of the exit rule: it yields to a position already held.
ExitRuleIfFlat(pos, prev_z, exit) ==
    IF FLt(FAbs(prev_z), exit) /\ pos # -1 THEN 0 ELSE pos

\* Exit rule.
ExitRule(pos, prev_z, exit) ==
    IF FLt(FAbs(prev_z), exit) THEN 0 ELSE pos

\* A mutant of the accrual: the delta taken with the wrong sign.
AccrueReversed(acc, pos, prev_z, curr_z) ==
    FAdd(acc, FMul(Frac(pos, 1), FSub(prev_z, curr_z)))

\* `pnl += position * (curr_z - prev_z)`
Accrue(acc, pos, prev_z, curr_z) ==
    FAdd(acc, FMul(Frac(pos, 1), FSub(curr_z, prev_z)))

BtInit ==
    /\ bt_pc = "call"
    /\ z_arg \in BacktestInputs
    /\ \E th \in Thresholds : entry_z = th[1] /\ exit_z = th[2]
    /\ z = <<>>
    /\ i = 0
    /\ position = 0
    /\ pnl = Zero
    /\ equity_curve = <<>>
    /\ timestamps = <<>>
    /\ bt_ret = <<>>

\* Lines 4-7: dropna and the degenerate-input return.
BtReturnShort ==
    /\ bt_pc = "call"
    /\ TooShort(Dropna(z_arg))
    /\ z' = Dropna(z_arg)
    /\ bt_pc' = "returned"
    /\ bt_ret' = <<[pnl |-> Zero, equity |-> <<>>]>>
    /\ UNCHANGED <<z_arg, entry_z, exit_z, i, position, pnl, equity_curve,
                   timestamps>>

\* Lines 4-14: dropna, the initial state, entering the loop.
BtEnterLoop ==
    /\ bt_pc = "call"
    /\ ~TooShort(Dropna(z_arg))
    /\ z' = Dropna(z_arg)
    /\ position' = 0
    /\ pnl' = Zero
    /\ equity_curve' = <<>>
    /\ timestamps' = <<>>
    /\ i' = 1
    /\ bt_pc' = "loop"
    /\ UNCHANGED <<z_arg, entry_z, exit_z, bt_ret>>

\* Lines 14-30: one iteration of the loop.
BtStep ==
    /\ bt_pc = "loop"
    /\ i < Len(z)
    /\ LET prev_z == Iloc(z, i - 1).val
           curr_z == Iloc(z, i).val
           entered == EntryRules(position, prev_z, entry_z)
           pos == ExitRule(entered, prev_z, exit_z)
           acc == Accrue(pnl, pos, prev_z, curr_z)
       IN /\ position' = pos
          /\ pnl' = acc
          /\ equity_curve' = Append(equity_curve, acc)
          /\ timestamps' = Append(timestamps, Iloc(z, i).idx)
    /\ i' = i + 1
    /\ UNCHANGED <<bt_pc, z_arg, entry_z, exit_z, z, bt_ret>>

\* Line 32.
BtReturn ==
    /\ bt_pc = "loop"
    /\ i >= Len(z)
    /\ bt_pc' = "returned"
    /\ bt_ret' = <<[pnl |-> pnl,
                    equity |-> MkSeries(equity_curve, timestamps)]>>
    /\ UNCHANGED <<z_arg, entry_z, exit_z, z, i, position, pnl,
                   equity_curve, timestamps>>

(***************************************************************************)
(* kalman_hedge_ratio                                                      *)
(***************************************************************************)

\* Most observations in a pair of series passed to the filter.
MaxObs == 3

KfYValues == {Frac(-1, 1), Frac(2, 1)}
KfXValues == {Frac(0, 1), Frac(1, 1), Frac(2, 1)}

\* delta = 1 makes 1 - delta zero; R = 0 removes the observation noise.
Deltas == {Frac(0, 1), Frac(1, 2), Frac(1, 1)}
Rs == {Frac(0, 1), Frac(1, 1)}

\* Paired series: y and x of one length.
KfInputs ==
    UNION {[1..m -> KfYValues] \X [1..m -> KfXValues] : m \in 0..MaxObs}

VARIABLES
    kf_pc,          \* "call" | "loop" | "returned" | "raised"
    y_arg,          \* y
    x_arg,          \* x
    delta,
    R,
    n,
    hr,             \* the ndarray of estimates
    P,
    Q,
    t,              \* loop variable of `for t in range(n)`
    K,              \* the gain of the step done last
    kf_ret,         \* <<hr>> once returned
    kf_err          \* the exception raised, "" if none

kf_vars == <<kf_pc, y_arg, x_arg, delta, R, n, hr, P, Q, t, K, kf_ret,
             kf_err>>

\* s[k] with Python's negative indices.
PyIndex(s, k) == IF k < 0 THEN s[Len(s) + k + 1] ELSE s[k + 1]

\* np.zeros(m)
Zeros(m) == [k \in 1..m |-> Zero]

\* `P = P + Q` for t > 0.
Predict(tt, p, q) == IF tt > 0 THEN FAdd(p, q) ELSE p

\* `y_hat = hr[t-1] * x.iloc[t] if t > 0 else 0`
PredictObservation(tt, h, xt) ==
    IF tt > 0 THEN FMul(PyIndex(h, tt - 1), xt) ELSE Zero

\* A mutant of the gain: the division guarded, 0 where the denominator is.
GainGuarded(p, xt, r) ==
    LET den == FAdd(FMul(FMul(xt, xt), p), r)
    IN IF den = Zero THEN Zero ELSE FDiv(FMul(p, xt), den)

\* `K = P * x.iloc[t] / (x.iloc[t]**2 * P + R)`
Gain(p, xt, r) == FDiv(FMul(p, xt), FAdd(FMul(FMul(xt, xt), p), r))

\* A mutant of the estimate: no special case for the first observation.
EstimateAlwaysUpdates(tt, h, k, e) == FAdd(PyIndex(h, tt - 1), FMul(k, e))

\* `hr[t] = hr[t-1] + K * e if t > 0 else 0`
Estimate(tt, h, k, e) ==
    IF tt > 0 THEN FAdd(PyIndex(h, tt - 1), FMul(k, e)) ELSE Zero

\* A mutant of the update of P: the factor taken without the `1 -`.
UpdatePByGain(p, k, xt) == FMul(FMul(k, xt), p)

\* `P = (1 - K * x.iloc[t]) * P`
UpdateP(p, k, xt) == FMul(FSub(One, FMul(k, xt)), p)

KfInit ==
    /\ kf_pc = "call"
    /\ \E yx \in KfInputs : y_arg = yx[1] /\ x_arg = yx[2]
    /\ delta \in Deltas
    /\ R \in Rs
    /\ n = 0
    /\ hr = <<>>
    /\ P = Zero
    /\ Q = Zero
    /\ t = 0
    /\ K = Zero
    /\ kf_ret = <<>>
    /\ kf_err = ""

\* Lines 37-41 when 1 - delta is 0: the float division raises.
KfRaise ==
    /\ kf_pc = "call"
    /\ FSub(One, delta) = Zero
    /\ n' = Len(y_arg)
    /\ hr' = Zeros(Len(y_arg))
    /\ P' = One
    /\ kf_pc' = "raised"
    /\ kf_err' = "ZeroDivisionError"
    /\ UNCHANGED <<y_arg, x_arg, delta, R, Q, t, K, kf_ret>>

\* Lines 37-41.
KfEnterLoop ==
    /\ kf_pc = "call"
    /\ FSub(One, delta) # Zero
    /\ n' = Len(y_arg)
    /\ hr' = Zeros(Len(y_arg))
    /\ P' = One
    /\ Q' = FDiv(delta, FSub(One, delta))
    /\ t' = 0
    /\ kf_pc' = "loop"
    /\ UNCHANGED <<y_arg, x_arg, delta, R, K, kf_ret, kf_err>>

\* Lines 43-53: one iteration of the loop.
KfStep ==
    /\ kf_pc = "loop"
    /\ t < n
    /\ LET xt == Iloc(x_arg, t)
           p == Predict(t, P, Q)
           y_hat == PredictObservation(t, hr, xt)
           e == FSub(Iloc(y_arg, t), y_hat)
           k == Gain(p, xt, R)
       IN /\ K' = k
          /\ hr' = [hr EXCEPT ![t + 1] = Estimate(t, hr, k, e)]
          /\ P' = UpdateP(p, k, xt)
    /\ t' = t + 1
    /\ UNCHANGED <<kf_pc, y_arg, x_arg, delta, R, n, Q, kf_ret, kf_err>>

\* Line 55.
KfReturn ==
    /\ kf_pc = "loop"
    /\ t >= n
    /\ kf_pc' = "returned"
    /\ kf_ret' = <<hr>>
    /\ UNCHANGED <<y_arg, x_arg, delta, R, n, hr, P, Q, t, K, kf_err>>

(***************************************************************************)
(* huber_hedge_ratio and spread_and_zscore                                 *)
(***************************************************************************)

\* Most bars in the pair of close series.
MaxBars == 4

\* Largest rolling window.
MaxWindow == 3

SpYValues == {Frac(0, 1), Frac(1, 1)}
SpXValues == {Frac(1, 1), Frac(2, 1)}

\* Coefficients the Huber fit may return.  The fit itself (an iterative
\* optimiser of scikit-learn) is not computed: its result is any of these.
HuberCoefs == {Frac(0, 1), Frac(1, 1)}

\* Paired series on one index: y and x of one length.
SpInputs ==
    UNION {[1..m -> SpYValues] \X [1..m -> SpXValues] : m \in 0..MaxBars}

VARIABLES
    sp_pc,          \* "hedge" | "spread" | "done" | "raised"
    sp_y,           \* y
    sp_x,           \* x
    window,
    sp_hr,          \* the scalar hedge ratio returned by huber_hedge_ratio
    sp_err,         \* the exception raised, "" if none
    spread,
    mean,
    std_sq,         \* the rolling std, held as its square
    zscore          \* z, each value v held as sign(v) * v^2

sp_vars == <<sp_pc, sp_y, sp_x, window, sp_hr, sp_err, spread, mean, std_sq,
             zscore>>

RECURSIVE SumOver(_, _)
SumOver(s, idx) ==
    IF idx = {} THEN Zero
    ELSE LET k == CHOOSE j \in idx : TRUE
         IN FAdd(Iloc(s, k), SumOver(s, idx \ {k}))

\* A mutant of the full-window rule: one observation fewer is enough.
HasFullWindowOffByOne(tt, w) == tt + 2 >= w

\* rolling(window): min_periods is the window, so a position has a value
\* only when the window is full.
HasFullWindow(tt, w) == tt + 1 >= w

\* The positions of the window ending at tt.
WindowAt(tt, w) == {k \in 0..tt : k > tt - w}

\* A mutant of the rolling mean: the mean of everything up to tt.
ExpandingMean(s, tt, w) ==
    IF HasFullWindow(tt, w)
    THEN FDiv(SumOver(s, 0..tt), Frac(tt + 1, 1))
    ELSE NaN

\* spread.rolling(window).mean() at tt
RollingMean(s, tt, w) ==
    IF HasFullWindow(tt, w)
    THEN FDiv(SumOver(s, WindowAt(tt, w)), Frac(Cardinality(WindowAt(tt, w)), 1))
    ELSE NaN

\* The square of spread.rolling(window).std() at tt: the sample variance
\* (ddof = 1), NaN for a window of one observation.
RollingStdSq(s, tt, w) ==
    IF HasFullWindow(tt, w)
    THEN LET idx == WindowAt(tt, w)
             m == FDiv(SumOver(s, idx), Frac(Cardinality(idx), 1))
             dev == [k \in 1..Len(s) |->
                        FMul(FSub(s[k], m), FSub(s[k], m))]
         IN FDiv(SumOver(dev, idx), Frac(Cardinality(idx) - 1, 1))
    ELSE NaN

\* (a - m) / std with std given by its square: sign(v) * v^2 of the
\* quotient v.  0/0 is NaN and a nonzero value over 0 is +-inf.
DivByStd(diff, sq) == FDiv(FMul(diff, FAbs(diff)), sq)

\* `spread = y - hr * x`
SpreadOf(yy, xx, h) == [k \in 1..Len(yy) |-> FSub(yy[k], FMul(h, xx[k]))]

SpInit ==
    /\ sp_pc = "hedge"
    /\ \E yx \in SpInputs : sp_y = yx[1] /\ sp_x = yx[2]
    /\ window \in 1..MaxWindow
    /\ sp_hr = NaN
    /\ sp_err = ""
    /\ spread = <<>>
    /\ mean = <<>>
    /\ std_sq = <<>>
    /\ zscore = <<>>

\* huber_hedge_ratio, lines 20-22: HuberRegressor().fit raises.  It does so
\* on an empty array (its input validation) and may for any input (the
\* optimiser not converging); the function adds no check of its own.
HuberRaise ==
    /\ sp_pc = "hedge"
    /\ sp_pc' = "raised"
    /\ sp_err' = "ValueError"
    /\ UNCHANGED <<sp_y, sp_x, window, sp_hr, spread, mean, std_sq, zscore>>

\* huber_hedge_ratio, lines 20-22: the fit returns and coef_[0] is the
\* result, for any number of pairs the fit accepts (one or more).
HuberReturn ==
    /\ sp_pc = "hedge"
    /\ Len(sp_y) >= 1
    /\ sp_hr' \in HuberCoefs
    /\ sp_pc' = "spread"
    /\ UNCHANGED <<sp_y, sp_x, window, sp_err, spread, mean, std_sq, zscore>>

\* spread_and_zscore, lines 12-17.
SpreadAndZscore ==
    /\ sp_pc = "spread"
    /\ LET sp == SpreadOf(sp_y, sp_x, sp_hr)
           mn == [k \in 1..Len(sp) |-> RollingMean(sp, k - 1, window)]
           sd == [k \in 1..Len(sp) |-> RollingStdSq(sp, k - 1, window)]
       IN /\ spread' = sp
          /\ mean' = mn
          /\ std_sq' = sd
          /\ zscore' = [k \in 1..Len(sp) |->
                           DivByStd(FSub(sp[k], mn[k]), sd[k])]
    /\ sp_pc' = "done"
    /\ UNCHANGED <<sp_y, sp_x, window, sp_hr, sp_err>>

(***************************************************************************)
(* AlertEngine                                                             *)
(***************************************************************************)

\* Longest metric series passed to the alert engine.
MaxSeries == 2

\* Metric values: missing, one beyond the thresholds (|-3| > 2, -3 < 2) and
\* one on them (2 > 2 and 2 < 2 are both false).
AeValues == {NaN, Frac(-3, 1), Frac(2, 1)}
AeThresholds == {Frac(2, 1)}

\* Thresholds of a rule called on its own, and of the z-score rule: one of
\* them negative, so that every number is beyond it.
RuleThresholds == {Frac(-1, 1), Frac(2, 1)}

AeSeries == SeqsOf(AeValues, 0, MaxSeries)

\* An optional argument: given, or None (the default).
Given(v) == [some |-> TRUE, v |-> v]

NoSeries == [some |-> FALSE, v |-> <<>>]

NoThreshold == [some |-> FALSE, v |-> NaN]

OptSeries == {Given(s) : s \in AeSeries} \cup {NoSeries}

OptThresholds == {Given(th) : th \in AeThresholds} \cup {NoThreshold}

VARIABLES
    ae_pc,          \* "ready" | "returned"
    ae_method,      \* the method called
    ae_z,           \* z
    z_thresh,
    ae_spread,      \* spread, optional
    spread_thresh,  \* optional
    ae_corr,        \* corr, optional
    corr_thresh,    \* optional
    ae_bool,        \* what check / check_spread / check_correlation_drop returned
    alerts,         \* what check_all returned
    ae_err          \* the exception the call raised, "" if none

ae_vars == <<ae_pc, ae_method, ae_z, z_thresh, ae_spread, spread_thresh,
             ae_corr, corr_thresh, ae_bool, alerts, ae_err>>

\* series.iloc[-1]
Last(s) == PyIndex(s, -1)

\* A mutant of the guard: it is left out.
NoDataUnguarded(s) == FALSE

\* Lines 64-65, 70-71, 76-77: `if len(series.dropna()) == 0`
NoData(s) == Len(Dropna(s)) = 0

\* series.iloc[-1] on an empty Series raises IndexError.
IlocRaises(s) == Len(s) = 0

\* A rule raises when it reads iloc[-1] of an empty series, which it does
\* only past its guard.
RuleRaises(s) == ~NoData(s) /\ IlocRaises(s)

\* A mutant of check: the comparison is not strict.
CheckNotStrict(zs, threshold) ==
    IF NoData(zs) THEN FALSE
    ELSE ~IlocRaises(zs) /\ ~FLt(FAbs(Last(zs)), threshold)
                        /\ ~IsNaN(Last(zs))

\* AlertEngine.check (FALSE stands for no result when it raises)
Check(zs, threshold) ==
    IF NoData(zs) THEN FALSE
    ELSE ~IlocRaises(zs) /\ FGt(FAbs(Last(zs)), threshold)

\* AlertEngine.check_spread
CheckSpread(sp, threshold) ==
    IF NoData(sp) THEN FALSE
    ELSE ~IlocRaises(sp) /\ FGt(FAbs(Last(sp)), threshold)

\* AlertEngine.check_correlation_drop
CheckCorrelationDrop(c, threshold) ==
    IF NoData(c) THEN FALSE
    ELSE ~IlocRaises(c) /\ FLt(Last(c), threshold)

\* The exception of a call, "" if it returns.
ErrorIf(raises) == IF raises THEN "IndexError" ELSE ""

Alert(name, value, threshold) ==
    [name |-> name, value |-> value, threshold |-> threshold]

\* AlertEngine.check_all
CheckAll(zs, zt, sp, st, c, ct) ==
    (IF Check(zs, zt)
     THEN <<Alert("Z-Score", Last(zs), zt)>> ELSE <<>>)
    \o (IF sp.some /\ st.some /\ CheckSpread(sp.v, st.v)
        THEN <<Alert("Spread Width", Last(sp.v), st.v)>> ELSE <<>>)
    \o (IF c.some /\ ct.some /\ CheckCorrelationDrop(c.v, ct.v)
        THEN <<Alert("Correlation Drop", Last(c.v), ct.v)>> ELSE <<>>)

\* check_all raises when a rule it evaluates does.
CheckAllRaises(zs, sp, st, c, ct) ==
    \/ RuleRaises(zs)
    \/ sp.some /\ st.some /\ RuleRaises(sp.v)
    \/ c.some /\ ct.some /\ RuleRaises(c.v)

\* alert_engine = AlertEngine(): the engine has no fields.
AeInit ==
    /\ ae_pc = "ready"
    /\ ae_method = ""
    /\ ae_z = <<>>
    /\ z_thresh = Zero
    /\ ae_spread = NoSeries
    /\ spread_thresh = NoThreshold
    /\ ae_corr = NoSeries
    /\ corr_thresh = NoThreshold
    /\ ae_bool = FALSE
    /\ alerts = <<>>
    /\ ae_err = ""

\* check(z, threshold)
AeCheck ==
    /\ ae_pc = "ready"
    /\ \E zs \in AeSeries, th \in RuleThresholds :
          /\ ae_z' = zs
          /\ z_thresh' = th
          /\ ae_bool' = Check(zs, th)
          /\ ae_err' = ErrorIf(RuleRaises(zs))
    /\ ae_method' = "check"
    /\ ae_pc' = "returned"
    /\ UNCHANGED <<ae_spread, spread_thresh, ae_corr, corr_thresh, alerts>>

\* check_spread(spread, threshold)
AeCheckSpread ==
    /\ ae_pc = "ready"
    /\ \E sp \in AeSeries, th \in RuleThresholds :
          /\ ae_spread' = Given(sp)
          /\ spread_thresh' = Given(th)
          /\ ae_bool' = CheckSpread(sp, th)
          /\ ae_err' = ErrorIf(RuleRaises(sp))
    /\ ae_method' = "check_spread"
    /\ ae_pc' = "returned"
    /\ UNCHANGED <<ae_z, z_thresh, ae_corr, corr_thresh, alerts>>

\* check_correlation_drop(corr, threshold)
AeCheckCorrelationDrop ==
    /\ ae_pc = "ready"
    /\ \E c \in AeSeries, th \in RuleThresholds :
          /\ ae_corr' = Given(c)
          /\ corr_thresh' = Given(th)
          /\ ae_bool' = CheckCorrelationDrop(c, th)
          /\ ae_err' = ErrorIf(RuleRaises(c))
    /\ ae_method' = "check_correlation_drop"
    /\ ae_pc' = "returned"
    /\ UNCHANGED <<ae_z, z_thresh, ae_spread, spread_thresh, alerts>>

\* check_all(z, z_thresh, spread, spread_thresh, corr, corr_thresh)
AeCheckAll ==
    /\ ae_pc = "ready"
    /\ \E zs \in AeSeries, zt \in RuleThresholds, sp \in OptSeries,
          st \in OptThresholds, c \in OptSeries, ct \in OptThresholds :
          /\ ae_z' = zs
          /\ z_thresh' = zt
          /\ ae_spread' = sp
          /\ spread_thresh' = st
          /\ ae_corr' = c
          /\ corr_thresh' = ct
          /\ alerts' = CheckAll(zs, zt, sp, st, c, ct)
          /\ ae_err' = ErrorIf(CheckAllRaises(zs, sp, st, c, ct))
    /\ ae_method' = "check_all"
    /\ ae_pc' = "returned"
    /\ UNCHANGED ae_bool

(***************************************************************************)
(* One run of the dashboard script, from the load of the ticks to the      *)
(* alert check                                                             *)
(***************************************************************************)

\* Bars (resample bins) the stored ticks of a symbol may span.
MaxBins == 22

\* `if len(df_y) < 5 or len(df_x) < 5`
MinTicks == 5

\* `if len(common_index) < 5`
MinOverlap == 5

\* The least value of the rolling-window slider, and its default.
WindowMin == 20
DEFAULT_WINDOW == 50

Windows == {WindowMin, DEFAULT_WINDOW}

\* Values of the minimum-volume input: off, and above the volume of a bar
\* of one tick.
MinVolumes == {0, 2}

TickBins == 1..MaxBins

\* The ticks stored for a symbol, as the number of ticks in each bin: the
\* bins lo..hi hold one tick each, two each, or one and two in turn.
FirstBins == {1, 2}
TickPatterns == {"one", "two", "alternating"}

TicksIn(lo, hi, pattern) ==
    [b \in TickBins |->
        IF b < lo \/ b > hi THEN 0
        ELSE IF pattern = "one" THEN 1
        ELSE IF pattern = "two" THEN 2
        ELSE 1 + ((b - lo) % 2)]

Stores ==
    {TicksIn(lo, hi, pattern) :
        lo \in FirstBins, hi \in 0..MaxBins, pattern \in TickPatterns}

VARIABLES
    app_pc,             \* "start" | "resampled" | "stopped" | "done"
    ticks_y,            \* the stored ticks of symbol_y
    ticks_x,            \* the stored ticks of symbol_x
    min_volume,
    bars_y,
    bars_x,
    common_index,
    app_y,              \* y
    app_x,              \* x
    app_window,         \* window
    use_kalman,
    effective_window,
    calls               \* the analytics calls made, in order

app_vars == <<app_pc, ticks_y, ticks_x, min_volume, bars_y, bars_x,
              common_index, app_y, app_x, app_window, use_kalman,
              effective_window, calls>>

\* TickStore.fetch_ticks: the rows of the symbol ordered by timestamp.
\* Every tick has quantity 1; the price plays no part in the flow.
RECURSIVE FetchFrom(_, _)
FetchFrom(ticks, b) ==
    IF b > MaxBins THEN <<>>
    ELSE [k \in 1..ticks[b] |-> [timestamp |-> b, price |-> One, qty |-> 1]]
         \o FetchFrom(ticks, b + 1)

FetchTicks(ticks) == FetchFrom(ticks, 1)

\* The sum of the quantities of some rows.
RECURSIVE SumQty(_)
SumQty(rows) ==
    IF rows = <<>> THEN 0 ELSE rows[1].qty + SumQty(Tail(rows))

\* resample(rule).agg(...): one row per bin, its close the last price of
\* the bin, missing when the bin holds no tick, its volume the sum of qty.
Ohlcv(df) ==
    [b \in TickBins |->
        LET InBin(r) == r.timestamp = b
            rows == SelectSeq(df, InBin)
        IN [idx |-> b,
            close |-> IF rows = <<>> THEN NaN ELSE rows[Len(rows)].price,
            volume |-> SumQty(rows)]]

\* resample_ticks: the rows with a missing value are dropped.
ResampleTicks(df) ==
    LET Complete(r) == ~IsNaN(r.close)
    IN SelectSeq(Ohlcv(df), Complete)

\* liquidity_filter
LiquidityFilter(bars, mv) ==
    LET Liquid(r) == r.volume >= mv
    IN SelectSeq(bars, Liquid)

\* bars.index
IndexOf(bars) == [k \in DOMAIN bars |-> bars[k].idx]

\* Index.intersection
Intersection(a, b) ==
    LET InB(l) == \E k \in DOMAIN b : b[k] = l
    IN SelectSeq(a, InB)

\* bars.loc[index]["close"]
CloseAt(bars, index) ==
    LET Selected(r) == \E k \in DOMAIN index : index[k] = r.idx
        rows == SelectSeq(bars, Selected)
    IN [k \in DOMAIN rows |-> [idx |-> rows[k].idx, val |-> rows[k].close]]

\* A mutant of the effective window: the configured window is passed as
\* it is.
EffectiveWindowUnclamped(w, overlap) == w

\* `effective_window = min(window, len(common_index) - 1)`
EffectiveWindow(w, overlap) ==
    IF w <= overlap - 1 THEN w ELSE overlap - 1

\* An analytics call, with the window it is passed if it takes one.
Call(fn) == [fn |-> fn, takes_window |-> FALSE, window |-> 0]
CallWindowed(fn, w) == [fn |-> fn, takes_window |-> TRUE, window |-> w]

\* Lines 304-325: the calls of the analytics section.
AnalyticsCalls(kalman, w) ==
    <<Call(IF kalman THEN "kalman_hedge_ratio" ELSE "huber_hedge_ratio"),
      CallWindowed("spread_and_zscore", w),
      Call("adf_test"),
      CallWindowed("rolling_corr", w),
      Call("ols_r2"),
      Call("check_all")>>

\* The state of a run before the data is loaded.
AppFresh ==
    /\ min_volume = 0
    /\ bars_y = <<>>
    /\ bars_x = <<>>
    /\ common_index = <<>>
    /\ app_y = <<>>
    /\ app_x = <<>>
    /\ app_window = 0
    /\ use_kalman = FALSE
    /\ effective_window = 0
    /\ calls = <<>>

AppInit ==
    /\ app_pc = "start"
    /\ ticks_y \in Stores
    /\ ticks_x \in Stores
    /\ AppFresh

\* Lines 259-277: too few ticks of either symbol, the run stops.
AppStopFewTicks ==
    /\ app_pc = "start"
    /\ \/ Len(FetchTicks(ticks_y)) < MinTicks
       \/ Len(FetchTicks(ticks_x)) < MinTicks
    /\ app_pc' = "stopped"
    /\ UNCHANGED <<ticks_y, ticks_x, min_volume, bars_y, bars_x,
                   common_index, app_y, app_x, app_window, use_kalman,
                   effective_window, calls>>

\* Lines 259-289: resampling, the liquidity filter, the common index.
AppResample ==
    /\ app_pc = "start"
    /\ Len(FetchTicks(ticks_y)) >= MinTicks
    /\ Len(FetchTicks(ticks_x)) >= MinTicks
    /\ \E mv \in MinVolumes :
          LET ry == ResampleTicks(FetchTicks(ticks_y))
              rx == ResampleTicks(FetchTicks(ticks_x))
              by == IF mv > 0 THEN LiquidityFilter(ry, mv) ELSE ry
              bx == IF mv > 0 THEN LiquidityFilter(rx, mv) ELSE rx
          IN /\ min_volume' = mv
             /\ bars_y' = by
             /\ bars_x' = bx
             /\ common_index' = Intersection(IndexOf(by), IndexOf(bx))
    /\ app_pc' = "resampled"
    /\ UNCHANGED <<ticks_y, ticks_x, app_y, app_x, app_window, use_kalman,
                   effective_window, calls>>

\* Lines 292-296: too few overlapping bars, the run stops.
AppStopFewBars ==
    /\ app_pc = "resampled"
    /\ Len(common_index) < MinOverlap
    /\ app_pc' = "stopped"
    /\ UNCHANGED <<ticks_y, ticks_x, min_volume, bars_y, bars_x,
                   common_index, app_y, app_x, app_window, use_kalman,
                   effective_window, calls>>

\* Lines 298-325: the aligned series, the effective window, the analytics.
AppAnalytics ==
    /\ app_pc = "resampled"
    /\ Len(common_index) >= MinOverlap
    /\ \E w \in Windows, kalman \in BOOLEAN :
          LET ew == EffectiveWindow(w, Len(common_index))
          IN /\ app_window' = w
             /\ use_kalman' = kalman
             /\ effective_window' = ew
             /\ calls' = AnalyticsCalls(kalman, ew)
    /\ app_y' = CloseAt(bars_y, common_index)
    /\ app_x' = CloseAt(bars_x, common_index)
    /\ app_pc' = "done"
    /\ UNCHANGED <<ticks_y, ticks_x, min_volume, bars_y, bars_x,
                   common_index>>

\* Line 140: the page refreshes and the script runs again.
AppRerun ==
    /\ app_pc \in {"stopped", "done"}
    /\ app_pc' = "start"
    /\ min_volume' = 0
    /\ bars_y' = <<>>
    /\ bars_x' = <<>>
    /\ common_index' = <<>>
    /\ app_y' = <<>>
    /\ app_x' = <<>>
    /\ app_window' = 0
    /\ use_kalman' = FALSE
    /\ effective_window' = 0
    /\ calls' = <<>>
    /\ UNCHANGED <<ticks_y, ticks_x>>

(***************************************************************************)
(* Specifications: each function is called on its own.                     *)
(***************************************************************************)

vars == <<bt_vars, kf_vars, sp_vars, ae_vars, app_vars>>

\* No run of the dashboard script.
AppIdle ==
    /\ app_pc = "idle"
    /\ ticks_y = [b \in TickBins |-> 0]
    /\ ticks_x = [b \in TickBins |-> 0]
    /\ AppFresh

\* No call of mean_reversion_backtest.
BtIdle ==
    /\ bt_pc = "idle"
    /\ z_arg = <<>>
    /\ entry_z = Zero
    /\ exit_z = Zero
    /\ z = <<>>
    /\ i = 0
    /\ position = 0
    /\ pnl = Zero
    /\ equity_curve = <<>>
    /\ timestamps = <<>>
    /\ bt_ret = <<>>

\* No call of kalman_hedge_ratio.
KfIdle ==
    /\ kf_pc = "idle"
    /\ y_arg = <<>>
    /\ x_arg = <<>>
    /\ delta = Zero
    /\ R = Zero
    /\ n = 0
    /\ hr = <<>>
    /\ P = Zero
    /\ Q = Zero
    /\ t = 0
    /\ K = Zero
    /\ kf_ret = <<>>
    /\ kf_err = ""

\* No call of huber_hedge_ratio or spread_and_zscore.
SpIdle ==
    /\ sp_pc = "idle"
    /\ sp_y = <<>>
    /\ sp_x = <<>>
    /\ window = 1
    /\ sp_hr = NaN
    /\ sp_err = ""
    /\ spread = <<>>
    /\ mean = <<>>
    /\ std_sq = <<>>
    /\ zscore = <<>>

\* No call on the alert engine.
AeIdle ==
    /\ ae_pc = "idle"
    /\ ae_method = ""
    /\ ae_z = <<>>
    /\ z_thresh = Zero
    /\ ae_spread = NoSeries
    /\ spread_thresh = NoThreshold
    /\ ae_corr = NoSeries
    /\ corr_thresh = NoThreshold
    /\ ae_bool = FALSE
    /\ alerts = <<>>
    /\ ae_err = ""

InitBacktest == BtInit /\ KfIdle /\ SpIdle /\ AeIdle /\ AppIdle

NextBacktest ==
    \/ BtReturnShort /\ UNCHANGED <<kf_vars, sp_vars, ae_vars, app_vars>>
    \/ BtEnterLoop /\ UNCHANGED <<kf_vars, sp_vars, ae_vars, app_vars>>
    \/ BtStep /\ UNCHANGED <<kf_vars, sp_vars, ae_vars, app_vars>>
    \/ BtReturn /\ UNCHANGED <<kf_vars, sp_vars, ae_vars, app_vars>>

SpecBacktest == InitBacktest /\ [][NextBacktest]_vars

InitKalman == KfInit /\ BtIdle /\ SpIdle /\ AeIdle /\ AppIdle

NextKalman ==
    \/ KfRaise /\ UNCHANGED <<bt_vars, sp_vars, ae_vars, app_vars>>
    \/ KfEnterLoop /\ UNCHANGED <<bt_vars, sp_vars, ae_vars, app_vars>>
    \/ KfStep /\ UNCHANGED <<bt_vars, sp_vars, ae_vars, app_vars>>
    \/ KfReturn /\ UNCHANGED <<bt_vars, sp_vars, ae_vars, app_vars>>

SpecKalman == InitKalman /\ [][NextKalman]_vars

\* The static hedge ratio, then the spread and its z-score.
InitSpread == SpInit /\ BtIdle /\ KfIdle /\ AeIdle /\ AppIdle

NextSpread ==
    \/ HuberRaise /\ UNCHANGED <<bt_vars, kf_vars, ae_vars, app_vars>>
    \/ HuberReturn /\ UNCHANGED <<bt_vars, kf_vars, ae_vars, app_vars>>
    \/ SpreadAndZscore /\ UNCHANGED <<bt_vars, kf_vars, ae_vars, app_vars>>

SpecSpread == InitSpread /\ [][NextSpread]_vars

\* One call on an alert engine.
InitAlert == AeInit /\ BtIdle /\ KfIdle /\ SpIdle /\ AppIdle

NextAlert ==
    \/ AeCheck /\ UNCHANGED <<bt_vars, kf_vars, sp_vars, app_vars>>
    \/ AeCheckSpread /\ UNCHANGED <<bt_vars, kf_vars, sp_vars, app_vars>>
    \/ AeCheckCorrelationDrop /\ UNCHANGED <<bt_vars, kf_vars, sp_vars, app_vars>>
    \/ AeCheckAll /\ UNCHANGED <<bt_vars, kf_vars, sp_vars, app_vars>>

SpecAlert == InitAlert /\ [][NextAlert]_vars

\* Runs of the dashboard script on one state of the tick store.
InitApp == AppInit /\ BtIdle /\ KfIdle /\ SpIdle /\ AeIdle

NextApp ==
    \/ AppStopFewTicks /\ UNCHANGED <<bt_vars, kf_vars, sp_vars, ae_vars>>
    \/ AppResample /\ UNCHANGED <<bt_vars, kf_vars, sp_vars, ae_vars>>
    \/ AppStopFewBars /\ UNCHANGED <<bt_vars, kf_vars, sp_vars, ae_vars>>
    \/ AppAnalytics /\ UNCHANGED <<bt_vars, kf_vars, sp_vars, ae_vars>>
    \/ AppRerun /\ UNCHANGED <<bt_vars, kf_vars, sp_vars, ae_vars>>

SpecApp == InitApp /\ [][NextApp]_vars

(***************************************************************************)
(* Properties of mean_reversion_backtest                                   *)
(***************************************************************************)

\* The number of defined (non-missing) values of a series.
DefinedCount(s) == Cardinality({k \in DOMAIN s : ~IsNaN(s[k])})

BtRunning == bt_pc = "loop" \/ (bt_pc = "returned" /\ i >= 1)

\* The previous value z[i-1] of the step done last.
LastPrev == Iloc(z, i - 2).val

\* C1: a series with fewer than 5 defined values, whatever its length and
\* the thresholds, never enters the loop and returns total PnL 0.0 with an
\* empty equity series.
C1_ShortSeriesReturnsZero ==
    DefinedCount(z_arg) < 5 =>
        /\ bt_pc \in {"call", "returned"}
        /\ bt_pc = "call" => ENABLED BtReturnShort
        /\ bt_pc = "returned" => bt_ret = <<[pnl |-> Zero, equity |-> <<>>]>>

\* A series of 5 or more elements, fewer than 5 of them defined, returned.
C1_Witness ==
    /\ bt_pc = "returned"
    /\ Len(z_arg) >= 5
    /\ DefinedCount(z_arg) < 5
    /\ DefinedCount(z_arg) > 0

\* C2: in every step, when |z[i-1]| < exit_z the position after the step
\* is 0 and the step leaves the running PnL where it was, whatever the
\* entry rule decided.
C2_ExitTakesPrecedence ==
    (BtRunning /\ i >= 2 /\ FLt(FAbs(LastPrev), exit_z)) =>
        /\ position = 0
        /\ equity_curve[i - 1] = IF i = 2 THEN Zero ELSE equity_curve[i - 2]

\* Both rules fired on the same previous value (exit_z > entry_z), and the
\* value moved in the step.
C2_Witness ==
    /\ bt_pc = "loop"
    /\ i >= 2
    /\ FGt(exit_z, entry_z)
    /\ FGt(LastPrev, entry_z)
    /\ FLt(FAbs(LastPrev), exit_z)
    /\ Iloc(z, i - 1).val # LastPrev
    /\ position = 0

\* The position of step k as the rules state it: flat when the exit rule
\* fires, else short or long on an entry, else as in the step before.
RECURSIVE RulePosition(_)
RulePosition(k) ==
    IF k = 0 THEN 0
    ELSE LET p == Iloc(z, k - 1).val
         IN IF FLt(FAbs(p), exit_z) THEN 0
            ELSE IF FGt(p, entry_z) THEN -1
            ELSE IF FLt(p, FNeg(entry_z)) THEN 1
            ELSE RulePosition(k - 1)

\* What step k adds to the running sum.
RuleAccrual(k) ==
    FMul(Frac(RulePosition(k), 1),
         FSub(Iloc(z, k).val, Iloc(z, k - 1).val))

\* C3: there is one equity-curve entry per step, one step per value after
\* the first; the k-th entry is the entry before it (0 for the first) plus
\* position * (z[k] - z[k-1]), the position being the one the rules give on
\* z[k-1]; the returned total is the last entry; on the worked example the
\* positions are 0, -1, -1, 0 and the total is 2.45.
C3_AccrualAndExample ==
    /\ BtRunning =>
        /\ Len(equity_curve) = i - 1
        /\ \A k \in 1..Len(equity_curve) :
              equity_curve[k] =
                  FAdd(IF k = 1 THEN Zero ELSE equity_curve[k - 1],
                       RuleAccrual(k))
        /\ pnl = IF i = 1 THEN Zero ELSE equity_curve[i - 1]
        /\ position = RulePosition(i - 1)
    /\ (bt_pc = "returned" /\ i >= 1) =>
        /\ i = Len(z)
        /\ Len(bt_ret[1].equity) = Len(z) - 1
        /\ \A k \in 1..(Len(z) - 1) :
              bt_ret[1].equity[k] =
                  [idx |-> Iloc(z, k).idx, val |-> equity_curve[k]]
        /\ bt_ret[1].pnl = equity_curve[Len(z) - 1]
    /\ (BtRunning /\ z_arg = ExampleZ /\ entry_z = H(200) /\ exit_z = H(10)) =>
        /\ i >= 2 => position = <<0, -1, -1, 0>>[i - 1]
        /\ bt_pc = "returned" => bt_ret[1].pnl = H(245)

\* The worked example has returned.
C3_Witness ==
    /\ bt_pc = "returned"
    /\ z_arg = ExampleZ
    /\ entry_z = H(200)
    /\ exit_z = H(10)
    /\ bt_ret[1].pnl = H(245)

\* C4: in a step where the exit rule does not fire, the position after the
\* step is -1 when z[i-1] > entry_z and +1 when z[i-1] < -entry_z.
C4_EntryOnPreviousValue ==
    (BtRunning /\ i >= 2 /\ ~FLt(FAbs(LastPrev), exit_z)) =>
        /\ FGt(LastPrev, entry_z) => position = -1
        /\ FLt(LastPrev, FNeg(entry_z)) => position = 1

\* A direct switch from +1 to -1: the step before entered long, this one
\* entered short on a previous value above entry_z while the current value
\* is below -entry_z.
C4_Witness ==
    /\ bt_pc = "loop"
    /\ i >= 3
    /\ i < Len(z)
    /\ FLt(Iloc(z, i - 3).val, FNeg(entry_z))
    /\ ~FLt(FAbs(Iloc(z, i - 3).val), exit_z)
    /\ FGt(LastPrev, entry_z)
    /\ ~FLt(FAbs(LastPrev), exit_z)
    /\ FLt(Iloc(z, i - 1).val, FNeg(entry_z))
    /\ position = -1

(***************************************************************************)
(* Properties of kalman_hedge_ratio                                        *)
(***************************************************************************)

\* C5 as stated: for any non-empty pair of series and any delta and R the
\* call returns one estimate per observation, the first exactly 0.
C5_AnyDeltaFirstEstimateZero ==
    (Len(y_arg) >= 1 /\ kf_pc \in {"loop", "returned", "raised"}) =>
        /\ kf_pc # "raised"
        /\ Len(hr) = Len(y_arg)
        /\ t >= 1 => hr[1] = Zero
        /\ kf_pc = "returned" =>
              /\ Len(kf_ret[1]) = Len(y_arg)
              /\ kf_ret[1][1] = Zero

\* C5 amended: the same for every delta other than 1, where Q =
\* delta / (1 - delta) divides by zero and the call raises.
C5_FirstEstimateZero ==
    (Len(y_arg) >= 1 /\ delta # One) =>
        /\ kf_pc # "raised"
        /\ kf_pc = "call" => ENABLED KfEnterLoop
        /\ kf_pc \in {"loop", "returned"} =>
              /\ Len(hr) = Len(y_arg)
              /\ t >= 1 => hr[1] = Zero
        /\ kf_pc = "returned" =>
              /\ Len(kf_ret[1]) = Len(y_arg)
              /\ kf_ret[1][1] = Zero

\* A call on two or more observations with a nonzero first pair and a
\* nonzero first gain has returned, its later estimates updated.
C5_Witness ==
    /\ kf_pc = "returned"
    /\ Len(y_arg) >= 2
    /\ y_arg[1] # Zero
    /\ x_arg[1] # Zero
    /\ kf_ret[1][1] = Zero
    /\ IsNum(kf_ret[1][2])
    /\ kf_ret[1][2] # Zero

AllZero(s) == \A k \in DOMAIN s : s[k] = Zero

\* C6: when every x[t] is 0 the gain is 0 at every step and every estimate
\* stays 0, for any y.
C6_ZeroXGainZero ==
    (AllZero(x_arg) /\ kf_pc \in {"loop", "returned"} /\ t >= 1) =>
        /\ K = Zero
        /\ \A k \in 1..t : hr[k] = Zero

(***************************************************************************)
(* Properties of huber_hedge_ratio and spread_and_zscore                   *)
(***************************************************************************)

\* C7: given fewer than 2 paired observations huber_hedge_ratio fails; it
\* returns a ratio only for 2 or more pairs.  (Any exception counts as the
\* failure: the class of the error is not compared.)
C7_FailsBelowTwoPairs ==
    /\ (Len(sp_y) < 2 /\ sp_pc # "hedge") => sp_pc = "raised"
    /\ sp_pc \in {"spread", "done"} => Len(sp_y) >= 2

\* The values of the window ending at tt differ.
WindowVaries(s, tt, w) ==
    \E a, b \in WindowAt(tt, w) : Iloc(s, a) # Iloc(s, b)

SpClaimCase == sp_pc = "done" /\ window >= 2 /\ Len(sp_y) >= window

\* C8: for a window W >= 2 and n >= W observations, z has one value per
\* spread value, is missing at the first W-1 positions and is a number at
\* every later position whose window of the spread is not constant.
C8_LeadingUndefined ==
    SpClaimCase =>
        /\ Len(spread) = Len(sp_y)
        /\ Len(zscore) = Len(spread)
        /\ \A tt \in 0..(Len(spread) - 1) :
              /\ tt < window - 1 => IsNaN(Iloc(zscore, tt))
              /\ (tt >= window - 1 /\ WindowVaries(spread, tt, window)) =>
                    IsNum(Iloc(zscore, tt))

\* A window of 3 on 4 or more observations: the first two positions are
\* missing and a later one is a number.
C8_Witness ==
    /\ SpClaimCase
    /\ window = 3
    /\ Len(spread) >= 4
    /\ IsNaN(Iloc(zscore, 0))
    /\ IsNaN(Iloc(zscore, 1))
    /\ IsNum(Iloc(zscore, 3))
    /\ Iloc(zscore, 3) # Zero

\* C9: wherever the rolling std is 0, and so wherever the spread is
\* constant within a full window, z is missing, neither infinite nor a
\* number.
C9_ZeroStdUndefined ==
    sp_pc = "done" =>
        \A tt \in 0..(Len(spread) - 1) :
            /\ Iloc(std_sq, tt) = Zero => IsNaN(Iloc(zscore, tt))
            /\ (window >= 2 /\ tt >= window - 1
                  /\ ~WindowVaries(spread, tt, window)) =>
                  (Iloc(std_sq, tt) = Zero /\ IsNaN(Iloc(zscore, tt)))

\* A constant window after a different value: the std is 0 there, and z
\* was a number before.
C9_Witness ==
    /\ sp_pc = "done"
    /\ window = 2
    /\ Len(spread) >= 3
    /\ IsNum(Iloc(zscore, 1))
    /\ Iloc(std_sq, 2) = Zero
    /\ IsNaN(Iloc(zscore, 2))

(***************************************************************************)
(* Properties of AlertEngine                                               *)
(***************************************************************************)

\* The most recent defined value of a series that has one.
LatestDefined(s) == Dropna(s)[Len(Dropna(s))].val

HasDefined(s) == DefinedCount(s) > 0

\* What check_all returns when each enabled rule is evaluated against the
\* most recent defined value of its metric, and reports that value.
AlertsOnLatestDefined ==
    (IF HasDefined(ae_z) /\ FGt(FAbs(LatestDefined(ae_z)), z_thresh)
     THEN <<Alert("Z-Score", LatestDefined(ae_z), z_thresh)>> ELSE <<>>)
    \o (IF /\ ae_spread.some /\ spread_thresh.some /\ HasDefined(ae_spread.v)
           /\ FGt(FAbs(LatestDefined(ae_spread.v)), spread_thresh.v)
        THEN <<Alert("Spread Width", LatestDefined(ae_spread.v),
                     spread_thresh.v)>>
        ELSE <<>>)
    \o (IF /\ ae_corr.some /\ corr_thresh.some /\ HasDefined(ae_corr.v)
           /\ FLt(LatestDefined(ae_corr.v), corr_thresh.v)
        THEN <<Alert("Correlation Drop", LatestDefined(ae_corr.v),
                     corr_thresh.v)>>
        ELSE <<>>)

\* C10: each rule is evaluated against the most recent defined value of
\* its series, also when the series ends in missing values, and check_all
\* reports that value.
C10_LatestDefinedValue ==
    ae_pc = "returned" =>
        /\ (ae_method = "check" /\ HasDefined(ae_z)) =>
              ae_bool = FGt(FAbs(LatestDefined(ae_z)), z_thresh)
        /\ (ae_method = "check_spread" /\ HasDefined(ae_spread.v)) =>
              ae_bool = FGt(FAbs(LatestDefined(ae_spread.v)), spread_thresh.v)
        /\ (ae_method = "check_correlation_drop" /\ HasDefined(ae_corr.v)) =>
              ae_bool = FLt(LatestDefined(ae_corr.v), corr_thresh.v)
        /\ ae_method = "check_all" => alerts = AlertsOnLatestDefined

\* Whether check_all returned an alert of this name.
HasAlert(name) == \E a \in DOMAIN alerts : alerts[a].name = name

\* C11: a rule evaluated on a series that is empty or all missing returns
\* False and does not raise, for every threshold, and check_all returns no
\* alert for that metric.
C11_NoDataNeverTriggers ==
    ae_pc = "returned" =>
        /\ ae_err = ""
        /\ (ae_method = "check" /\ ~HasDefined(ae_z)) => ae_bool = FALSE
        /\ (ae_method = "check_spread" /\ ~HasDefined(ae_spread.v)) =>
              ae_bool = FALSE
        /\ (ae_method = "check_correlation_drop" /\ ~HasDefined(ae_corr.v)) =>
              ae_bool = FALSE
        /\ ae_method = "check_all" =>
              /\ ~HasDefined(ae_z) => ~HasAlert("Z-Score")
              /\ ~HasDefined(ae_spread.v) => ~HasAlert("Spread Width")
              /\ ~HasDefined(ae_corr.v) => ~HasAlert("Correlation Drop")

\* check_all returned on an empty z and an all-missing spread, with a
\* threshold every number is beyond, and raised an alert on the third
\* metric.
C11_Witness ==
    /\ ae_pc = "returned"
    /\ ae_method = "check_all"
    /\ ae_z = <<>>
    /\ z_thresh = Frac(-1, 1)
    /\ ae_spread.some
    /\ spread_thresh.some
    /\ Len(ae_spread.v) >= 1
    /\ ~HasDefined(ae_spread.v)
    /\ alerts # <<>>

\* The place of a rule in the order of the results.
RuleRank(name) ==
    CASE name = "Z-Score" -> 1
      [] name = "Spread Width" -> 2
      [] name = "Correlation Drop" -> 3
      [] OTHER -> 0

\* The last element of a series is a number.
LastIsNumber(s) == Len(s) >= 1 /\ IsNum(s[Len(s)])

\* C12: check_all returns the alerts of the rules that are enabled and
\* triggered, one each, in the order Z-Score, Spread Width, Correlation
\* Drop: an alert carries the value it was evaluated on and its threshold
\* and that value is strictly beyond the threshold; a rule whose series or
\* threshold is absent has no alert; a rule whose series ends in a number
\* strictly beyond its threshold has one.
C12_CheckAllResults ==
    (ae_pc = "returned" /\ ae_method = "check_all") =>
        /\ \A a \in DOMAIN alerts : RuleRank(alerts[a].name) >= 1
        /\ \A a, b \in DOMAIN alerts :
              a < b => RuleRank(alerts[a].name) < RuleRank(alerts[b].name)
        /\ \A a \in DOMAIN alerts :
              LET al == alerts[a]
              IN /\ IsNum(al.value)
                 /\ al.name = "Z-Score" =>
                       /\ al.value = ae_z[Len(ae_z)]
                       /\ al.threshold = z_thresh
                       /\ FGt(FAbs(al.value), z_thresh)
                 /\ al.name = "Spread Width" =>
                       /\ ae_spread.some /\ spread_thresh.some
                       /\ al.value = ae_spread.v[Len(ae_spread.v)]
                       /\ al.threshold = spread_thresh.v
                       /\ FGt(FAbs(al.value), spread_thresh.v)
                 /\ al.name = "Correlation Drop" =>
                       /\ ae_corr.some /\ corr_thresh.some
                       /\ al.value = ae_corr.v[Len(ae_corr.v)]
                       /\ al.threshold = corr_thresh.v
                       /\ FLt(al.value, corr_thresh.v)
        /\ (LastIsNumber(ae_z) /\ FGt(FAbs(ae_z[Len(ae_z)]), z_thresh)) =>
              HasAlert("Z-Score")
        /\ (/\ ae_spread.some /\ spread_thresh.some
            /\ LastIsNumber(ae_spread.v)
            /\ FGt(FAbs(ae_spread.v[Len(ae_spread.v)]), spread_thresh.v)) =>
              HasAlert("Spread Width")
        /\ (/\ ae_corr.some /\ corr_thresh.some
            /\ LastIsNumber(ae_corr.v)
            /\ FLt(ae_corr.v[Len(ae_corr.v)], corr_thresh.v)) =>
              HasAlert("Correlation Drop")

\* All three rules triggered at once.
C12_Witness ==
    /\ ae_pc = "returned"
    /\ ae_method = "check_all"
    /\ Len(alerts) = 3
    /\ alerts[1].name = "Z-Score"
    /\ alerts[2].name = "Spread Width"
    /\ alerts[3].name = "Correlation Drop"

\* Neither rule fires on the value v: exit_z <= |v| <= entry_z.
NeitherRuleFires(v) ==
    /\ ~FLt(FAbs(v), exit_z)
    /\ ~FGt(FAbs(v), entry_z)

\* C14: the position is -1, 0 or +1 in every state; it is 0 when the loop
\* is entered; a step on a previous value with exit_z <= |z[i-1]| <= entry_z
\* leaves it as it was.
C14_PositionHeld ==
    /\ [](position \in {-1, 0, 1})
    /\ []((bt_pc = "loop" /\ i = 1) => position = 0)
    /\ [][(BtStep /\ NeitherRuleFires(Iloc(z, i - 1).val)) =>
              position' = position]_vars

\* A position entered earlier was held through a step on which neither
\* rule fired.
C14_Witness ==
    /\ bt_pc = "loop"
    /\ i >= 3
    /\ NeitherRuleFires(LastPrev)
    /\ position # 0
    /\ Iloc(z, i - 1).val # LastPrev

(***************************************************************************)
(* The covariance of kalman_hedge_ratio                                    *)
(***************************************************************************)

\* R > 0 and 0 <= delta < 1.
C15_Case ==
    /\ FGt(R, Zero)
    /\ ~FLt(delta, Zero)
    /\ FLt(delta, One)

\* The denominator of the gain, x[t]**2 * P + R.
GainDenominator(p, xt) == FAdd(FMul(FMul(xt, xt), p), R)

\* C15: for R > 0 and 0 <= delta < 1, P is strictly positive when the loop
\* is entered, after every predict and after every update, so that the
\* denominator of the gain is never zero and the gain is a number, whatever
\* x holds; every update, the first included, multiplies the predicted P by
\* R / (x[t]**2 * P + R), a factor in (0, 1], while the first estimate
\* stays 0.
C15_PositiveCovariance ==
    /\ []((C15_Case /\ kf_pc \in {"loop", "returned"}) =>
            /\ kf_err = ""
            /\ FGt(P, Zero)
            /\ t >= 1 => IsNum(K) /\ hr[1] = Zero
            /\ t = 1 => P = FDiv(R, FAdd(FMul(x_arg[1], x_arg[1]), R))
            /\ (kf_pc = "loop" /\ t < n) =>
                  /\ FGt(Predict(t, P, Q), Zero)
                  /\ GainDenominator(Predict(t, P, Q), Iloc(x_arg, t)) # Zero)
    /\ [][(C15_Case /\ KfStep) =>
            LET p == Predict(t, P, Q)
                factor == FDiv(R, GainDenominator(p, Iloc(x_arg, t)))
            IN /\ P' = FMul(factor, p)
               /\ FGt(factor, Zero)
               /\ ~FGt(factor, One)]_vars

\* The filter returned on a series x holding a zero and a nonzero value,
\* with process noise, P below its initial 1.
C15_Witness ==
    /\ kf_pc = "returned"
    /\ C15_Case
    /\ delta # Zero
    /\ Len(x_arg) >= 2
    /\ x_arg[1] # Zero
    /\ \E k \in DOMAIN x_arg : x_arg[k] = Zero
    /\ FGt(P, Zero)
    /\ FLt(P, One)

(***************************************************************************)
(* Properties of the dashboard script                                      *)
(***************************************************************************)

\* The number of ticks stored in the bins b..MaxBins.
RECURSIVE TicksFrom(_, _)
TicksFrom(ticks, b) ==
    IF b > MaxBins THEN 0 ELSE ticks[b] + TicksFrom(ticks, b + 1)

\* A bin of a symbol yields a bar that passes the liquidity filter.
KeepsBar(ticks, b) ==
    /\ ticks[b] > 0
    /\ min_volume > 0 => ticks[b] >= min_volume

\* The timestamps the two resampled (and filtered) series share.
SharedBins == {b \in TickBins : KeepsBar(ticks_y, b) /\ KeepsBar(ticks_x, b)}

Overlap == Cardinality(SharedBins)

\* C13: the analytics functions are called only in a run where both
\* symbols have 5 ticks or more and the two resampled series share 5
\* timestamps or more; then y and x carry one index, the shared timestamps
\* in order, and the window passed is min(window, overlap - 1), which lies
\* between 2 and overlap - 1.  A run stopped by a guard has made no call.
C13_AnalyticsGuarded ==
    /\ app_pc \in {"start", "resampled", "stopped"} => calls = <<>>
    /\ app_pc = "done" => calls # <<>>
    /\ calls # <<>> =>
          /\ TicksFrom(ticks_y, 1) >= 5
          /\ TicksFrom(ticks_x, 1) >= 5
          /\ Overlap >= 5
          /\ Len(app_y) = Overlap
          /\ IndexOf(app_y) = IndexOf(app_x)
          /\ {app_y[k].idx : k \in DOMAIN app_y} = SharedBins
          /\ \A k \in 1..(Len(app_y) - 1) : app_y[k].idx < app_y[k + 1].idx
          /\ \A k \in DOMAIN app_y : IsNum(app_y[k].val) /\ IsNum(app_x[k].val)
          /\ effective_window =
                IF app_window < Overlap - 1 THEN app_window ELSE Overlap - 1
          /\ effective_window >= 2
          /\ effective_window <= Overlap - 1
          /\ \A c \in DOMAIN calls :
                calls[c].takes_window => calls[c].window = effective_window

\* The analytics ran on bars thinned by the liquidity filter, the two
\* symbols keeping different bars, with a window cut down to the overlap.
C13_Witness ==
    /\ app_pc = "done"
    /\ min_volume > 0
    /\ Len(common_index) < Len(bars_y)
    /\ Len(common_index) < Len(bars_x)
    /\ Len(bars_y) < Cardinality({b \in TickBins : ticks_y[b] > 0})
    /\ effective_window < app_window
    /\ calls # <<>>

====
